---- MODULE Spec2Model ----
(***************************************************************************)
(* A model of src/src/dispenser.rs: the Dispenser, which owns a shuffled   *)
(* sequence of indices and mints Hands from it, and the Hand, a frozen     *)
(* copy of one such sequence paired with a borrowed deck.                  *)
(***************************************************************************)
EXTENDS Naturals, Sequences, FiniteSets

VARIABLES
    n,         \* the `len` argument given to Dispenser::new
    seq,       \* Dispenser.seq : Vec<usize>
    hands,     \* the Hands the caller holds, in the order they were made
    ret,       \* the last call made and what it returned
    shuffles,  \* how many times Dispenser::shuffle has run
    failed     \* whether a make_hand call on this Dispenser has returned None

vars == <<n, seq, hands, ret, shuffles, failed>>

(* ------------------------------ bounds -------------------------------- *)

\* largest `len` given to Dispenser::new
MaxN == 2
\* longest deck passed to make_hand / make_hand_unchecked
MaxDeck == 3
\* how many Hands the caller holds at most
MaxHands == 2
\* longest choice slice given to Hand::new
MaxChoices == 3
\* largest index stored in a choice slice given to Hand::new
MaxIndex == 3
\* longest element slice given to Hand::new
MaxElements == 3

(* --------------------------- values of T ------------------------------ *)

\* the elements decks are made of; a deck of length m is the first m of them
Letters == <<"A", "B", "C", "D", "E", "F", "G", "H">>

Deck(m) == [i \in 1..m |-> Letters[i]]

\* Option<T>
None == [some |-> FALSE]

Some(x) == [some |-> TRUE, val |-> x]

(* ----------------------------- Dispenser ------------------------------ *)

\* a mutant of Identity: the range 1..=len instead of 0..len
IdentityFromOne(len) == [i \in 1..len |-> i]

\* (0..len).collect()
Identity(len) == [i \in 1..len |-> i - 1]

\* a mutant of Swap: position i is overwritten and position j is left as it was
SwapCopy(s, i, j) == [s EXCEPT ![i + 1] = s[j + 1]]

\* slice::swap(i, j), with 0-based i and j
Swap(s, i, j) == [s EXCEPT ![i + 1] = s[j + 1], ![j + 1] = s[i + 1]]

\* a mutant of ShuffleFrom: position i is swapped with a position drawn from
\* 0..i-1, never with itself (Sattolo's variant)
RECURSIVE ShuffleFromBelow(_, _)
ShuffleFromBelow(s, i) ==
    IF i < 1 THEN {s}
    ELSE UNION {ShuffleFromBelow(Swap(s, i, j), i - 1) : j \in 0..(i - 1)}

\* The outcomes of the Fisher-Yates pass SliceRandom::shuffle makes over the
\* positions i, i-1, .., 1: position i is swapped with a position drawn from
\* 0..=i.
RECURSIVE ShuffleFrom(_, _)
ShuffleFrom(s, i) ==
    IF i < 1 THEN {s}
    ELSE UNION {ShuffleFrom(Swap(s, i, j), i - 1) : j \in 0..i}

\* Dispenser::shuffle: the sequences self.seq may hold after the call
Shuffle(s) == IF Len(s) = 0 THEN {s} ELSE ShuffleFrom(s, Len(s) - 1)

\* Dispenser::len
DispenserLen(s) == Len(s)

(* -------------------------------- Hand -------------------------------- *)

\* Hand::new: Hand(choices, elements); `by` records which call made it
HandNew(choices, elements, by) ==
    [choices |-> choices, elements |-> elements, by |-> by]

\* slice::get with a 0-based usize index
Get(s, i) == IF i < Len(s) THEN Some(s[i + 1]) ELSE None

\* a mutant of choose: idx indexes the elements directly, the choices unused
chooseDirect(h, idx) == Get(h.elements, idx)

\* a mutant of choose: the Hand reads the Dispenser's live sequence instead of
\* its own frozen copy
chooseLive(h, idx) ==
    LET u == Get(seq, idx)
    IN  IF u.some
        THEN LET t == Get(h.elements, u.val)
             IN  IF t.some THEN Some(t.val) ELSE None
        ELSE None

\* Hand::choose
choose(h, idx) ==
    LET u == Get(h.choices, idx)
    IN  IF u.some
        THEN LET t == Get(h.elements, u.val)
             IN  IF t.some THEN Some(t.val) ELSE None
        ELSE None

\* a mutant of HandLen: the length of the elements instead of the choices
HandLenOfDeck(h) == Len(h.elements)

\* Hand::len
HandLen(h) == Len(h.choices)

(* ------------------------------ the calls ------------------------------ *)

\* Dispenser::new(len), for every len up to MaxN
Init ==
    /\ n \in 0..MaxN
    /\ seq \in Shuffle(Identity(n))
    /\ hands = <<>>
    /\ ret = [op |-> "new", arg |-> <<>>, out |-> None]
    /\ shuffles = 1
    /\ failed = FALSE

\* a mutant of Unchecked: the snapshot keeps only as many choices as the deck
\* has elements
UncheckedTruncating(deck, by) ==
    LET k == IF Len(deck) < Len(seq) THEN Len(deck) ELSE Len(seq)
        b == SubSeq(seq, 1, k)
    IN  /\ seq' \in Shuffle(seq)
        /\ shuffles' = shuffles + 1
        /\ hands' = Append(hands, HandNew(b, deck, by))
        /\ ret' = [op |-> by, arg |-> deck, out |-> Some(HandNew(b, deck, by))]
        /\ UNCHANGED <<n, failed>>

\* a mutant of Unchecked: shuffle first, snapshot second
UncheckedReshuffleFirst(deck, by) ==
    /\ seq' \in Shuffle(seq)
    /\ shuffles' = shuffles + 1
    /\ hands' = Append(hands, HandNew(seq', deck, by))
    /\ ret' = [op |-> by, arg |-> deck, out |-> Some(HandNew(seq', deck, by))]
    /\ UNCHANGED <<n, failed>>

\* a mutant of Unchecked: no clone, every Hand shares the Dispenser's sequence
\* and so follows each reshuffle
UncheckedAliased(deck, by) ==
    /\ seq' \in Shuffle(seq)
    /\ shuffles' = shuffles + 1
    /\ hands' = [i \in 1..(Len(hands) + 1) |->
                    IF i <= Len(hands)
                    THEN [hands[i] EXCEPT !.choices = seq']
                    ELSE HandNew(seq', deck, by)]
    /\ ret' = [op |-> by, arg |-> deck, out |-> Some(HandNew(seq', deck, by))]
    /\ UNCHANGED <<n, failed>>

\* a mutant of Unchecked: the sequence is moved into the Hand instead of
\* cloned, which leaves the Dispenser with an empty one
UncheckedTaking(deck, by) ==
    LET b == seq
    IN  /\ seq' \in Shuffle(<<>>)
        /\ shuffles' = shuffles + 1
        /\ hands' = Append(hands, HandNew(b, deck, by))
        /\ ret' = [op |-> by, arg |-> deck, out |-> Some(HandNew(b, deck, by))]
        /\ UNCHANGED <<n, failed>>

\* the body of make_hand_unchecked: snapshot, shuffle, Hand::new
Unchecked(deck, by) ==
    LET b == seq
    IN  /\ seq' \in Shuffle(seq)
        /\ shuffles' = shuffles + 1
        /\ hands' = Append(hands, HandNew(b, deck, by))
        /\ ret' = [op |-> by, arg |-> deck, out |-> Some(HandNew(b, deck, by))]
        /\ UNCHANGED <<n, failed>>

\* Dispenser::make_hand_unchecked(deck)
MakeHandUnchecked ==
    \E m \in 0..MaxDeck :
        /\ Len(hands) < MaxHands
        /\ Unchecked(Deck(m), "make_hand_unchecked")

\* a mutant of MakeHand: the failing branch reshuffles before it returns None
MakeHandShufflingOnFailure ==
    \E m \in 0..MaxDeck :
        IF Len(Deck(m)) # DispenserLen(seq)
        THEN /\ ret' = [op |-> "make_hand", arg |-> Deck(m), out |-> None]
             /\ failed' = TRUE
             /\ seq' \in Shuffle(seq)
             /\ shuffles' = shuffles + 1
             /\ UNCHANGED <<n, hands>>
        ELSE /\ Len(hands) < MaxHands
             /\ Unchecked(Deck(m), "make_hand")

\* a mutant of MakeHand: only a deck longer than the sequence is rejected
MakeHandLoose ==
    \E m \in 0..MaxDeck :
        IF Len(Deck(m)) > DispenserLen(seq)
        THEN /\ ret' = [op |-> "make_hand", arg |-> Deck(m), out |-> None]
             /\ failed' = TRUE
             /\ UNCHANGED <<n, seq, hands, shuffles>>
        ELSE /\ Len(hands) < MaxHands
             /\ Unchecked(Deck(m), "make_hand")

\* a mutant of MakeHand: the failing branch cuts the sequence down to the
\* deck's length
MakeHandTruncatingOnFailure ==
    \E m \in 0..MaxDeck :
        IF Len(Deck(m)) # DispenserLen(seq)
        THEN /\ ret' = [op |-> "make_hand", arg |-> Deck(m), out |-> None]
             /\ failed' = TRUE
             /\ seq' = SubSeq(seq, 1, IF m < Len(seq) THEN m ELSE Len(seq))
             /\ UNCHANGED <<n, hands, shuffles>>
        ELSE /\ Len(hands) < MaxHands
             /\ Unchecked(Deck(m), "make_hand")

\* a mutant of MakeHand: the succeeding branch does not delegate to
\* make_hand_unchecked but mints on its own, shuffling before it snapshots
MakeHandOnItsOwn ==
    \E m \in 0..MaxDeck :
        IF Len(Deck(m)) # DispenserLen(seq)
        THEN /\ ret' = [op |-> "make_hand", arg |-> Deck(m), out |-> None]
             /\ failed' = TRUE
             /\ UNCHANGED <<n, seq, hands, shuffles>>
        ELSE /\ Len(hands) < MaxHands
             /\ UncheckedReshuffleFirst(Deck(m), "make_hand")

\* a mutant of MakeHand: an empty deck is rejected as well
MakeHandRejectingEmpty ==
    \E m \in 0..MaxDeck :
        IF Len(Deck(m)) = 0 \/ Len(Deck(m)) # DispenserLen(seq)
        THEN /\ ret' = [op |-> "make_hand", arg |-> Deck(m), out |-> None]
             /\ failed' = TRUE
             /\ UNCHANGED <<n, seq, hands, shuffles>>
        ELSE /\ Len(hands) < MaxHands
             /\ Unchecked(Deck(m), "make_hand")

\* Dispenser::make_hand(deck)
MakeHand ==
    \E m \in 0..MaxDeck :
        IF Len(Deck(m)) # DispenserLen(seq)
        THEN /\ ret' = [op |-> "make_hand", arg |-> Deck(m), out |-> None]
             /\ failed' = TRUE
             /\ UNCHANGED <<n, seq, hands, shuffles>>
        ELSE /\ Len(hands) < MaxHands
             /\ Unchecked(Deck(m), "make_hand")

\* Dispenser::len()
CallLen ==
    /\ ret' = [op |-> "len", arg |-> <<>>, out |-> Some(DispenserLen(seq))]
    /\ UNCHANGED <<n, seq, hands, shuffles, failed>>

Next ==
    \/ MakeHandUnchecked
    \/ MakeHand
    \/ CallLen

Spec == Init /\ [][Next]_vars

(* ----------------- Hands made directly with Hand::new ------------------ *)

\* the choice slices given to Hand::new
RECURSIVE SeqsUpTo(_, _)
SeqsUpTo(S, k) ==
    IF k = 0 THEN {<<>>}
    ELSE LET shorter == SeqsUpTo(S, k - 1)
         IN  shorter \cup {Append(s, x) : s \in {t \in shorter : Len(t) = k - 1}, x \in S}

\* Hand::new(choices, elements) for every choice slice and element slice in
\* the bounds; no Dispenser takes part, so an empty one stands by
InitHand ==
    /\ n = 0
    /\ seq = <<>>
    /\ shuffles = 1
    /\ failed = FALSE
    /\ \E choices \in SeqsUpTo(0..MaxIndex, MaxChoices), m \in 0..MaxElements :
        /\ hands = <<HandNew(choices, Deck(m), "new")>>
        /\ ret = [op |-> "new", arg |-> <<>>, out |-> None]

\* Hand::choose(idx) on one of the Hands held
CallChoose ==
    \E i \in 1..Len(hands), idx \in 0..(MaxChoices + 1) :
        /\ ret' = [op |-> "choose", arg |-> <<i, idx>>, out |-> choose(hands[i], idx)]
        /\ UNCHANGED <<n, seq, hands, shuffles, failed>>

\* Hand::len() on one of the Hands held
CallHandLen ==
    \E i \in 1..Len(hands) :
        /\ ret' = [op |-> "hand_len", arg |-> <<i>>, out |-> Some(HandLen(hands[i]))]
        /\ UNCHANGED <<n, seq, hands, shuffles, failed>>

NextHand ==
    \/ CallChoose
    \/ CallHandLen

SpecHand == InitHand /\ [][NextHand]_vars

(* ----------------- the example of Hand::choose's doc ------------------- *)

\* Box::from([2,3,1,0,4])
DocChoices == <<2, 3, 1, 0, 4>>

\* &['a','b','c','d','e'], written [A,B,C,D,E] in the doc's prose
DocElements == <<"A", "B", "C", "D", "E">>

\* every order the choices of s can be stored in
Arrangements(s) ==
    {t \in [1..Len(s) -> {s[i] : i \in 1..Len(s)}] :
        \A i, j \in 1..Len(s) : i # j => t[i] # t[j]}

\* Hand::new(choices, elements) with the doc's elements and its five choices
\* in every order, the doc's own among them
InitDoc ==
    /\ n = 0
    /\ seq = <<>>
    /\ shuffles = 1
    /\ failed = FALSE
    /\ \E choices \in Arrangements(DocChoices) :
        /\ hands = <<HandNew(choices, DocElements, "new")>>
        /\ ret = [op |-> "new", arg |-> <<>>, out |-> None]

NextDoc ==
    \/ CallChoose
    \/ CallHandLen

SpecDoc == InitDoc /\ [][NextDoc]_vars

(* ------------------------------ properties ----------------------------- *)

\* s holds exactly the integers 0..k-1, each exactly once
IsPermutation(s, k) ==
    /\ Len(s) = k
    /\ \A i \in 1..Len(s) : s[i] \in 0..(k - 1)
    /\ \A v \in 0..(k - 1) : Cardinality({i \in 1..Len(s) : s[i] = v}) = 1

\* the Hand the last call returned is the newest one held
Minted == ret.op \in {"make_hand", "make_hand_unchecked"} /\ ret.out.some

\* C1: in every reachable state of a Dispenser made by Dispenser::new(N), after
\* any calls of make_hand, make_hand_unchecked and len with decks of any
\* length, seq holds exactly the integers 0..N-1, each exactly once.
SeqIsPermutation == IsPermutation(seq, n)

\* C1's case: two Hands have been minted, so seq has been shuffled three
\* times, and seq is not the identity
SeqIsPermutationWitness ==
    /\ n >= 2
    /\ Len(hands) >= 2
    /\ shuffles >= 3
    /\ seq # Identity(n)

\* C2: every Hand returned by make_hand (on success) or make_hand_unchecked,
\* at any point of any run, holds a choice sequence that is a permutation of
\* 0..N-1.
HandsArePermutations ==
    /\ \A i \in 1..Len(hands) : IsPermutation(hands[i].choices, n)
    /\ Minted => IsPermutation(ret.out.val.choices, n)

\* C2's case: a Hand minted by each of the two calls, one of them against a
\* deck shorter than N, its choices not the identity
HandsArePermutationsWitness ==
    /\ n >= 2
    /\ \E i, j \in 1..Len(hands) :
        /\ hands[i].by = "make_hand"
        /\ hands[j].by = "make_hand_unchecked"
        /\ Len(hands[j].elements) < n
        /\ hands[j].choices # Identity(n)

\* C3: the Hand a mint returns holds the sequence the Dispenser had just
\* before the call, not the one the call's reshuffle produced.
SnapshotThenReshuffle ==
    [][Len(hands') = Len(hands) + 1 =>
            /\ hands'[Len(hands')].choices = seq
            /\ ret'.out = Some(hands'[Len(hands')])
            /\ ret'.out.val.choices = seq]_vars

\* C3's case: a mint has returned a Hand whose choices differ from the
\* sequence its reshuffle left in the Dispenser
SnapshotThenReshuffleWitness ==
    /\ Minted
    /\ ret.out.val = hands[Len(hands)]
    /\ ret.out.val.choices # seq

\* C4: make_hand(deck) with deck.len() # dispenser.len() returns None, makes no
\* Hand and leaves the Dispenser's sequence as it was (no reshuffle), so the
\* next mint starts from the sequence it would have started from anyway.
FailedMakeHandHasNoEffect ==
    [][(ret'.op = "make_hand" /\ Len(ret'.arg) # DispenserLen(seq)) =>
            /\ ~ret'.out.some
            /\ seq' = seq
            /\ hands' = hands
            /\ shuffles' = shuffles
            /\ n' = n]_vars

\* C4's case: make_hand has just returned None on a Dispenser of two or more
\* indices that has minted before
FailedMakeHandHasNoEffectWitness ==
    /\ n >= 2
    /\ Len(hands) >= 1
    /\ ret.op = "make_hand"
    /\ ~ret.out.some
    /\ Len(ret.arg) # DispenserLen(seq)

\* C5: once a Hand is minted its choice sequence never changes, whatever is
\* called on the Dispenser afterwards.
HandsAreFrozen ==
    [][\A i \in 1..Len(hands) :
            /\ i <= Len(hands')
            /\ hands'[i].choices = hands[i].choices]_vars

\* C5's case: an earlier Hand is still held after a later mint and a failed
\* make_hand, and differs from the later Hand and from the Dispenser's sequence
HandsAreFrozenWitness ==
    /\ Len(hands) >= 2
    /\ failed
    /\ hands[1].choices # hands[2].choices
    /\ hands[1].choices # seq

\* C6: for every Hand (choices, elements), however it was made, and every
\* idx, choose(idx) returns elements[choices[idx]] when idx < choices.len() and
\* choices[idx] < elements.len(), and None in every other case; so it is None
\* for every idx >= len().
ChooseIsTwoStageLookup ==
    ret.op = "choose" =>
        LET h == hands[ret.arg[1]]
            idx == ret.arg[2]
        IN  /\ (idx < Len(h.choices) /\ h.choices[idx + 1] < Len(h.elements))
                => ret.out = Some(h.elements[h.choices[idx + 1] + 1])
            /\ ~(idx < Len(h.choices) /\ h.choices[idx + 1] < Len(h.elements))
                => ret.out = None
            /\ idx >= HandLen(h) => ret.out = None

\* C6's case: choose has returned None for an idx within the choices, whose
\* stored choice lies beyond the elements, on a Hand that also has a choice
\* within them
ChooseIsTwoStageLookupWitness ==
    /\ ret.op = "choose"
    /\ ret.out = None
    /\ LET h == hands[ret.arg[1]]
       IN  /\ ret.arg[2] < Len(h.choices)
           /\ h.choices[ret.arg[2] + 1] >= Len(h.elements)
           /\ \E k \in 0..(Len(h.choices) - 1) :
                /\ k # h.choices[k + 1]
                /\ choose(h, k).some

\* C7: for a fixed Hand and a fixed idx, choose(idx) returns the same outcome
\* before and after every mint (and every other change of the Dispenser's
\* sequence) made on the Dispenser the Hand came from, the deck being unchanged.
ChooseIsStable ==
    [][(Len(hands') > Len(hands) \/ seq' # seq) =>
            \A i \in 1..Len(hands) : \A idx \in 0..(MaxN + 1) :
                /\ i <= Len(hands')
                /\ (choose(hands[i], idx))' = choose(hands[i], idx)]_vars

\* C7's case: a Hand that chooses an element is still held after a later mint
\* has left the Dispenser with another sequence than the Hand's
ChooseIsStableWitness ==
    /\ Len(hands) >= 2
    /\ choose(hands[1], 0).some
    /\ choose(hands[1], 0) # choose(hands[2], 0)
    /\ hands[1].choices # seq

\* C8: on a Hand returned by a successful make_hand, choose(idx) returns an
\* element of the deck for every idx < N and None only for idx >= N: no stored
\* choice lies beyond the deck. A stored choice beyond the deck occurs only on
\* Hands made by make_hand_unchecked (or Hand::new).
MakeHandChoicesLand ==
    \A i \in 1..Len(hands) :
        LET h == hands[i]
        IN  /\ h.by = "make_hand" =>
                /\ \A idx \in 0..(MaxN + 1) :
                    /\ idx < n => /\ choose(h, idx).some
                                  /\ \E p \in 1..Len(h.elements) :
                                        choose(h, idx).val = h.elements[p]
                    /\ idx >= n => ~choose(h, idx).some
                /\ \A k \in 1..Len(h.choices) : h.choices[k] < Len(h.elements)
            /\ (\E k \in 1..Len(h.choices) : h.choices[k] >= Len(h.elements))
                => h.by = "make_hand_unchecked"

\* C8's case: one Hand from a successful make_hand on two or more indices, and
\* one from make_hand_unchecked with a stored choice beyond its deck
MakeHandChoicesLandWitness ==
    /\ n >= 2
    /\ \E i, j \in 1..Len(hands) :
        /\ hands[i].by = "make_hand"
        /\ hands[j].by = "make_hand_unchecked"
        /\ \E k \in 1..Len(hands[j].choices) :
            hands[j].choices[k] >= Len(hands[j].elements)

\* C9: on a Hand returned by a successful make_hand, idx -> the deck position
\* choose(idx) returns is a bijection between 0..N-1 and the deck's positions:
\* each position is chosen by exactly one idx, no two idx choose the same.
MakeHandIsBijection ==
    \A i \in 1..Len(hands) :
        LET h == hands[i]
        IN  h.by = "make_hand" =>
                /\ Len(h.elements) = n
                /\ \A idx \in 0..(n - 1) :
                    /\ h.choices[idx + 1] \in 0..(Len(h.elements) - 1)
                    /\ choose(h, idx) = Some(h.elements[h.choices[idx + 1] + 1])
                /\ \A p \in 0..(Len(h.elements) - 1) :
                    Cardinality({idx \in 0..(n - 1) : h.choices[idx + 1] = p}) = 1
                /\ \A a, b \in 0..(n - 1) :
                    a # b => choose(h, a) # choose(h, b)

\* C9's case: a Hand from a successful make_hand on two or more indices that
\* was minted after an earlier reshuffle and does not choose in deck order
MakeHandIsBijectionWitness ==
    /\ n >= 2
    /\ Len(hands) >= 2
    /\ hands[2].by = "make_hand"
    /\ hands[2].choices # Identity(n)

\* C10: in any reachable state, also after failed make_hand calls, make_hand
\* with a deck of the Dispenser's length returns Some.
RightSizedMakeHandSucceeds ==
    (ret.op = "make_hand" /\ (Len(ret.arg) = n \/ Len(ret.arg) = DispenserLen(seq)))
        => /\ ret.out.some
           /\ ret.out.val = hands[Len(hands)]

\* C10's case: make_hand has returned Some on a Dispenser on which an earlier
\* make_hand returned None
RightSizedMakeHandSucceedsWitness ==
    /\ failed
    /\ n >= 1
    /\ ret.op = "make_hand"
    /\ ret.out.some

\* C11: when deck.len() = dispenser.len(), make_hand returns Some(h) where h
\* and the Dispenser's resulting state are those make_hand_unchecked produces
\* from the same state, deck and shuffle outcome: every succeeding make_hand
\* step is a step of make_hand_unchecked's body, and the two differ only in
\* the length check.
MakeHandIsUncheckedWhenLengthsMatch ==
    [][(ret'.op = "make_hand" /\ Len(ret'.arg) = DispenserLen(seq)) =>
            /\ ret'.out.some
            /\ Unchecked(ret'.arg, "make_hand")
            /\ [choices |-> ret'.out.val.choices, elements |-> ret'.out.val.elements]
                    = [choices |-> seq, elements |-> ret'.arg]
            /\ seq' \in Shuffle(seq)]_vars

\* C11's case: make_hand has returned Some on two or more indices, and the
\* reshuffle of that call has left another sequence than the Hand's
MakeHandIsUncheckedWhenLengthsMatchWitness ==
    /\ n >= 2
    /\ ret.op = "make_hand"
    /\ ret.out.some
    /\ Len(ret.arg) = n
    /\ ret.out.val.choices # seq

\* C12: Dispenser::len() returns the N given to Dispenser::new in every
\* reachable state; no mint, failed mint or reshuffle changes it.
LenIsN ==
    /\ DispenserLen(seq) = n
    /\ ret.op = "len" => ret.out = Some(n)

\* C12's case: len() has been called on a Dispenser of one or more indices
\* that has minted a Hand and has had a make_hand fail
LenIsNWitness ==
    /\ n >= 1
    /\ ret.op = "len"
    /\ Len(hands) >= 1
    /\ failed

\* C13: a Dispenser made with N = 0 has len() = 0; make_hand against an empty
\* deck succeeds, also repeatedly, and every Hand it yields returns None from
\* choose(idx) for every idx; make_hand against a non-empty deck fails.
EmptyDispenser ==
    n = 0 =>
        /\ DispenserLen(seq) = 0
        /\ ret.op = "len" => ret.out = Some(0)
        /\ ret.op = "make_hand" => (ret.out.some <=> Len(ret.arg) = 0)
        /\ \A i \in 1..Len(hands) :
            hands[i].by = "make_hand" =>
                /\ HandLen(hands[i]) = 0
                /\ \A idx \in 0..(MaxN + 1) : choose(hands[i], idx) = None

\* C13's case: on a Dispenser made with N = 0, make_hand has succeeded twice,
\* the second time after a make_hand against a non-empty deck had failed
EmptyDispenserWitness ==
    /\ n = 0
    /\ failed
    /\ Len(hands) >= 2
    /\ hands[1].by = "make_hand"
    /\ hands[2].by = "make_hand"
    /\ ret.op = "make_hand"
    /\ ret.out.some

\* choose(1) has just returned on the Hand of the doc's example
DocChooseOne ==
    /\ ret.op = "choose"
    /\ ret.arg[2] = 1
    /\ hands[ret.arg[1]].choices = DocChoices
    /\ hands[ret.arg[1]].elements = DocElements

ShufflesCountMints ==
    /\ shuffles = 1 + Len(hands)
    /\ \A i \in 1..Len(hands) : hands[i].by \in {"make_hand", "make_hand_unchecked"}

\* C15's case: a Hand minted by each of the two calls and a make_hand that
\* failed
ShufflesCountMintsWitness ==
    /\ failed
    /\ shuffles = 3
    /\ \E i, j \in 1..Len(hands) :
        /\ hands[i].by = "make_hand"
        /\ hands[j].by = "make_hand_unchecked"

\* C16: every Hand returned by make_hand_unchecked has len() equal to the
\* Dispenser's N, whatever the length of the deck passed; Hand::len() counts
\* the frozen choices, not the deck.
UncheckedHandLenIsN ==
    /\ \A i \in 1..Len(hands) :
        hands[i].by = "make_hand_unchecked" => HandLen(hands[i]) = n
    /\ (ret.op = "make_hand_unchecked") => HandLen(ret.out.val) = DispenserLen(seq)

\* C16's case: make_hand_unchecked has returned Hands against a deck shorter
\* and a deck longer than N
UncheckedHandLenIsNWitness ==
    \E i, j \in 1..Len(hands) :
        /\ hands[i].by = "make_hand_unchecked"
        /\ hands[j].by = "make_hand_unchecked"
        /\ Len(hands[i].elements) < n
        /\ Len(hands[j].elements) > n

\* C17: on a Dispenser of N >= 2, two Hands minted one after the other against
\* the same deck are bound by no guarantee: the reshuffle between them may
\* leave a sequence that chooses another element for some idx, and it may
\* leave the very same sequence, so that they choose alike for every idx.
\* Stated when a mint returns: the sequence left for the next Hand is one of
\* the shuffle's outcomes on this Hand's choices, and these include the
\* choices themselves and a sequence choosing differently from a deck of N.
ConsecutiveHandsUnrelated ==
    (n >= 2 /\ Minted) =>
        LET h == ret.out.val
            outcomes == Shuffle(h.choices)
        IN  /\ seq \in outcomes
            /\ h.choices \in outcomes
            /\ \E s \in outcomes : \E idx \in 0..(n - 1) :
                choose(HandNew(s, Deck(n), h.by), idx)
                    # choose(HandNew(h.choices, Deck(n), h.by), idx)

\* C17's case: a mint has just returned, two Hands minted one after the other
\* against the same deck choose the same element for every idx, and the
\* sequence the next mint will return chooses another element than they do
\* for some idx
ConsecutiveHandsUnrelatedWitness ==
    /\ n >= 2
    /\ Minted
    /\ Len(hands) >= 2
    /\ hands[1].elements = Deck(n)
    /\ hands[2].elements = Deck(n)
    /\ \A idx \in 0..(n - 1) : choose(hands[1], idx) = choose(hands[2], idx)
    /\ \E idx \in 0..(n - 1) :
        choose(HandNew(seq, Deck(n), "make_hand"), idx) # choose(hands[2], idx)

\* the smaller of two numbers
Min(a, b) == IF a < b THEN a ELSE b

\* C18: for a Hand minted by make_hand_unchecked from a Dispenser of size N
\* against a deck of length M # N: exactly min(N, M) of the indices 0..N-1
\* give a present result from choose, these results are pairwise distinct
\* deck positions, all below min(N, M), the other N - min(N, M) indices give
\* None, and no deck position >= N is ever returned. Stated of the Hand when
\* make_hand_unchecked returns it.
MismatchedHandChoosesMin ==
    (ret.op = "make_hand_unchecked" /\ Len(ret.arg) # n) =>
        LET h == ret.out.val
            M == Len(h.elements)
            present == {idx \in 0..(n - 1) : choose(h, idx).some}
        IN  /\ h = hands[Len(hands)]
            /\ M = Len(ret.arg)
            /\ Cardinality(present) = Min(n, M)
            /\ \A idx \in present :
                \E p \in 0..(Min(n, M) - 1) :
                    /\ h.choices[idx + 1] = p
                    /\ choose(h, idx) = Some(h.elements[p + 1])
            /\ \A a, b \in present : a # b => choose(h, a) # choose(h, b)
            /\ Cardinality({idx \in 0..(n - 1) : choose(h, idx) = None})
                    = n - Min(n, M)
            /\ \A idx \in 0..(MaxN + 1) : \A p \in n..(M - 1) :
                choose(h, idx) # Some(h.elements[p + 1])

\* C18's case: on two or more indices, make_hand_unchecked has just returned,
\* and has returned one Hand against a shorter, non-empty deck and one against
\* a longer deck
MismatchedHandChoosesMinWitness ==
    /\ n >= 2
    /\ ret.op = "make_hand_unchecked"
    /\ Len(ret.arg) # n
    /\ \E i, j \in 1..Len(hands) :
        /\ hands[i].by = "make_hand_unchecked"
        /\ hands[j].by = "make_hand_unchecked"
        /\ Len(hands[i].elements) >= 1
        /\ Len(hands[i].elements) < n
        /\ Len(hands[j].elements) > n
        /\ \E idx \in 0..(n - 1) : choose(hands[i], idx) = None

====
